---- MODULE Spec2Model ----
(***************************************************************************)
(* The stack layouter of the layout engine (src/src/layout/stacked.rs)     *)
(* with the shared layout types it relies on (src/src/layout/mod.rs).      *)
(*                                                                         *)
(* Sizes are lengths in points.  The source stores them as floats; every   *)
(* length drawn here is an even integer, so that `line / 2` in             *)
(* AlignedAxis::anchor is exact.  The source's `active_space` is a 0-based *)
(* index into `ctx.spaces`; it is kept 0-based and the space it names is   *)
(* ctx.spaces[active_space + 1] of the 1-based TLA+ sequence.              *)
(***************************************************************************)
EXTENDS Integers, Sequences, FiniteSets, TLC

VARIABLES
    ctx,            \* StackContext: [spaces, axes], fixed at construction
    layouts,        \* MultiLayout accumulated so far
    boxes,          \* pending (offset, anchor, layout) triples
    usable,         \* generalized usable size of the active space
    dimensions,     \* generalized running size: x cross extent, y cursor
    active_space,   \* 0-based index of the active space
    include_empty,  \* emit the trailing layout even when it is empty
    finalized,      \* history: per finalized layout, where and how it was finalized
    accepted,       \* history: the boxes add returned Ok for, in call order
    trace,          \* history: the calls made so far with their results
    output,         \* the MultiLayout returned by finish
    pc              \* "running" until finish has been called, then "finished"

vars == << ctx, layouts, boxes, usable, dimensions, active_space, include_empty,
           finalized, accepted, trace, output, pc >>

----------------------------------------------------------------------------
(* Bounds of the model. *)

MaxCalls == 4       \* add and add_space calls made before finish

----------------------------------------------------------------------------
(* Geometry primitives of crate::size. *)

Max(a, b) == IF a >= b THEN a ELSE b

Min(a, b) == IF a <= b THEN a ELSE b

Size2DNew(x, y) == [x |-> x, y |-> y]

with_x(x) == [x |-> x, y |-> 0]

with_y(y) == [x |-> 0, y |-> y]

SizeAdd(a, b) == [x |-> a.x + b.x, y |-> a.y + b.y]

SizeSub(a, b) == [x |-> a.x - b.x, y |-> a.y - b.y]

SizeBoxZero == [left |-> 0, top |-> 0, right |-> 0, bottom |-> 0]

\* Size2D::fits: whether the other size fits into this one (inclusive).
fits(self, other) == self.x >= other.x /\ self.y >= other.y

\* Size2D::padded / unpadded: grow or shrink by the padding on each side.
padded(self, padding) ==
    [x |-> self.x + padding.left + padding.right,
     y |-> self.y + padding.top + padding.bottom]

unpadded(self, padding) ==
    [x |-> self.x - padding.left - padding.right,
     y |-> self.y - padding.top - padding.bottom]

----------------------------------------------------------------------------
(* Axes and alignments (mod.rs). *)

Axes == {"LeftToRight", "RightToLeft", "TopToBottom", "BottomToTop"}

Alignments == {"Origin", "Center", "End"}

is_horizontal(axis) == axis \in {"LeftToRight", "RightToLeft"}

is_positive(axis) == axis \in {"LeftToRight", "TopToBottom"}

\* anchor that takes every axis for a positive one.
anchor_ignoring_direction(self, line) ==
    CASE self.alignment = "Origin" -> 0
      [] self.alignment = "Center" -> line \div 2
      [] OTHER -> line

\* AlignedAxis::anchor
AlignedAxis_anchor(self, line) ==
    CASE (is_positive(self.axis) /\ self.alignment = "Origin")
           \/ (~is_positive(self.axis) /\ self.alignment = "End") -> 0
      [] self.alignment = "Center" -> line \div 2
      [] OTHER -> line

\* LayoutAxes::anchor
LayoutAxes_anchor(self, area) ==
    Size2DNew(AlignedAxis_anchor(self.primary, area.x),
              AlignedAxis_anchor(self.secondary, area.y))

\* Size2D::generalized / specialized: physical (x, y) to (primary, secondary)
\* and back; the two coincide when the primary axis is horizontal.
generalized(self, axes) ==
    IF is_horizontal(axes.primary.axis) THEN self ELSE [x |-> self.y, y |-> self.x]

specialized(self, axes) ==
    IF is_horizontal(axes.primary.axis) THEN self ELSE [x |-> self.y, y |-> self.x]

----------------------------------------------------------------------------
(* Layout spaces (mod.rs). *)

\* LayoutSpace::usable
LayoutSpace_usable(self) == unpadded(self.dimensions, self.padding)

\* LayoutSpace::start
LayoutSpace_start(self) == Size2DNew(self.padding.left, self.padding.right)

\* LayoutActionList::add_layout: the layout becomes one positioned entry.
add_layout(actions, position, layout) ==
    Append(actions, [position |-> position, layout |-> layout])

----------------------------------------------------------------------------
(* The stack layouter (stacked.rs).  The operations are functions of the   *)
(* layouter's fields, gathered in a record; `finalized` rides along as the *)
(* history of finish_layout.                                               *)

Self ==
    [layouts |-> layouts, boxes |-> boxes, usable |-> usable,
     dimensions |-> dimensions, active_space |-> active_space,
     include_empty |-> include_empty, finalized |-> finalized]

Space(c, i) == c.spaces[i + 1]

start_dimensions(u, axes) ==
    with_x(IF axes.primary.alignment = "Origin" THEN 0 ELSE u.x)

\* new that does not ask for the first space's layout when it stays empty.
new_without_empty(c) ==
    LET u == generalized(LayoutSpace_usable(Space(c, 0)), c.axes)
    IN  [layouts |-> << >>, boxes |-> << >>, usable |-> u,
         dimensions |-> start_dimensions(u, c.axes), active_space |-> 0,
         include_empty |-> FALSE, finalized |-> << >>]

\* StackLayouter::new
new(c) ==
    LET u == generalized(LayoutSpace_usable(Space(c, 0)), c.axes)
    IN  [layouts |-> << >>, boxes |-> << >>, usable |-> u,
         dimensions |-> start_dimensions(u, c.axes), active_space |-> 0,
         include_empty |-> TRUE, finalized |-> << >>]

\* size_with that forgets the cursor: the combined size is the box alone.
size_with_without_cursor(s, other) ==
    [x |-> Max(s.dimensions.x, other.x), y |-> other.y]

\* StackLayouter::size_with
size_with(s, other) ==
    [x |-> Max(s.dimensions.x, other.x), y |-> s.dimensions.y + other.y]

\* The position finish_layout gives one pending box.
box_position(s, b) ==
    LET space == Space(ctx, s.active_space)
        anchor == LayoutAxes_anchor(ctx.axes, s.usable)
        factor == IF is_positive(ctx.axes.secondary.axis) THEN 1 ELSE -1
        start == LayoutSpace_start(space)
        general_position ==
            SizeAdd(SizeSub(anchor, b.anchor), with_y(b.offset * factor))
    IN  SizeAdd(specialized(general_position, ctx.axes), start)

RECURSIVE drain(_, _, _)
drain(s, pending, actions) ==
    IF pending = << >> THEN actions
    ELSE drain(s, Tail(pending),
               add_layout(actions, box_position(s, Head(pending)), Head(pending).layout))

\* finish_layout that drains the pending boxes without emitting them.
finish_layout_dropping(s) ==
    LET space == Space(ctx, s.active_space)
        layout ==
            [dimensions |-> IF space.shrink_to_fit
                            THEN padded(s.dimensions, space.padding)
                            ELSE space.dimensions,
             actions |-> << >>,
             debug_render |-> TRUE]
    IN  [s EXCEPT !.layouts = Append(@, layout),
                  !.boxes = << >>,
                  !.finalized = Append(@, [space |-> s.active_space,
                                           include_empty |-> s.include_empty,
                                           cursor |-> s.dimensions.y])]

\* StackLayouter::finish_layout
finish_layout(s) ==
    LET space == Space(ctx, s.active_space)
        layout ==
            [dimensions |-> IF space.shrink_to_fit
                            THEN padded(s.dimensions, space.padding)
                            ELSE space.dimensions,
             actions |-> drain(s, s.boxes, << >>),
             debug_render |-> TRUE]
    IN  [s EXCEPT !.layouts = Append(@, layout),
                  !.boxes = << >>,
                  !.finalized = Append(@, [space |-> s.active_space,
                                           include_empty |-> s.include_empty,
                                           cursor |-> s.dimensions.y])]

\* start_new_space that steps over one candidate space.
start_new_space_skipping(s, incl) ==
    LET next == Min(s.active_space + 2, Len(ctx.spaces) - 1)
        u == generalized(LayoutSpace_usable(Space(ctx, next)), ctx.axes)
    IN  [s EXCEPT !.active_space = next,
                  !.usable = u,
                  !.dimensions = start_dimensions(u, ctx.axes),
                  !.include_empty = incl]

\* start_new_space that keeps the usable size of the space it leaves.
start_new_space_stale_usable(s, incl) ==
    LET next == Min(s.active_space + 1, Len(ctx.spaces) - 1)
    IN  [s EXCEPT !.active_space = next,
                  !.dimensions = start_dimensions(s.usable, ctx.axes),
                  !.include_empty = incl]

\* StackLayouter::start_new_space
start_new_space(s, incl) ==
    LET next == Min(s.active_space + 1, Len(ctx.spaces) - 1)
        u == generalized(LayoutSpace_usable(Space(ctx, next)), ctx.axes)
    IN  [s EXCEPT !.active_space = next,
                  !.usable = u,
                  !.dimensions = start_dimensions(u, ctx.axes),
                  !.include_empty = incl]

\* has_room that wants room to spare: the comparison is strict.
has_room_strict(s, size) ==
    s.usable.x > size_with(s, size).x /\ s.usable.y > size_with(s, size).y

\* The loop condition of StackLayouter::add: the combined size fits the active space.
has_room(s, size) == fits(s.usable, size_with(s, size))

\* The search loop of StackLayouter::add.
RECURSIVE add_search(_, _)
add_search(s, size) ==
    IF has_room(s, size) THEN [state |-> s, result |-> "Ok"]
    ELSE IF s.active_space = Len(ctx.spaces) - 1
         THEN [state |-> s, result |-> "NotEnoughSpace"]
         ELSE add_search(start_new_space(finish_layout(s), TRUE), size)

\* add that pushes the box whatever the search found.
add_ignoring_failure(s, layout) ==
    LET size == generalized(layout.dimensions, ctx.axes)
        found == add_search(s, size)
        t == found.state
    IN  [state |-> [t EXCEPT !.boxes = Append(@, [offset |-> t.dimensions.y,
                                                  anchor |-> LayoutAxes_anchor(ctx.axes, size),
                                                  layout |-> layout]),
                             !.dimensions.y = @ + size.y],
         result |-> "Ok"]

\* add that drops boxes of no secondary extent instead of stacking them.
add_skipping_empty(s, layout) ==
    LET size == generalized(layout.dimensions, ctx.axes)
        found == add_search(s, size)
        t == found.state
    IN  IF found.result # "Ok" \/ size.y = 0 THEN found
        ELSE [state |-> [t EXCEPT !.boxes = Append(@, [offset |-> t.dimensions.y,
                                                       anchor |-> LayoutAxes_anchor(ctx.axes, size),
                                                       layout |-> layout]),
                                  !.dimensions.y = @ + size.y],
              result |-> "Ok"]

\* add that records the offset after advancing the cursor.
add_offset_after(s, layout) ==
    LET size == generalized(layout.dimensions, ctx.axes)
        found == add_search(s, size)
        t == found.state
    IN  IF found.result # "Ok" THEN found
        ELSE [state |-> [t EXCEPT !.boxes = Append(@, [offset |-> t.dimensions.y + size.y,
                                                       anchor |-> LayoutAxes_anchor(ctx.axes, size),
                                                       layout |-> layout]),
                                  !.dimensions.y = @ + size.y],
              result |-> "Ok"]

\* StackLayouter::add
add(s, layout) ==
    LET size == generalized(layout.dimensions, ctx.axes)
        found == add_search(s, size)
        t == found.state
    IN  IF found.result # "Ok" THEN found
        ELSE [state |-> [t EXCEPT !.boxes = Append(@, [offset |-> t.dimensions.y,
                                                       anchor |-> LayoutAxes_anchor(ctx.axes, size),
                                                       layout |-> layout]),
                                  !.dimensions.y = @ + size.y],
              result |-> "Ok"]

\* add_space that overflows already when the gap fills the space exactly.
add_space_inclusive(s, space) ==
    IF s.dimensions.y + space >= s.usable.y
    THEN start_new_space(finish_layout(s), FALSE)
    ELSE [s EXCEPT !.dimensions.y = @ + space]

\* add_space that advances the cursor without looking at the room left.
add_space_unchecked(s, space) == [s EXCEPT !.dimensions.y = @ + space]

\* StackLayouter::add_space
add_space(s, space) ==
    IF s.dimensions.y + space > s.usable.y
    THEN start_new_space(finish_layout(s), FALSE)
    ELSE [s EXCEPT !.dimensions.y = @ + space]

\* finish that flushes only on include_empty and forgets the pending boxes.
finish_without_flush(s) ==
    LET t == IF s.include_empty THEN finish_layout(s) ELSE s
    IN  [state |-> [t EXCEPT !.layouts = << >>], returned |-> t.layouts]

\* finish that always finalizes one more layout.
finish_always(s) ==
    LET t == finish_layout(s)
    IN  [state |-> [t EXCEPT !.layouts = << >>], returned |-> t.layouts]

\* StackLayouter::finish
finish(s) ==
    LET t == IF s.include_empty \/ s.boxes # << >> THEN finish_layout(s) ELSE s
    IN  [state |-> [t EXCEPT !.layouts = << >>], returned |-> t.layouts]

\* remaining that hands out the generalized size as it is.
remaining_unspecialized(s) ==
    Size2DNew(s.usable.x, s.usable.y - s.dimensions.y)

\* StackLayouter::remaining
remaining(s) ==
    specialized(Size2DNew(s.usable.x, s.usable.y - s.dimensions.y), ctx.axes)

----------------------------------------------------------------------------
(* The inputs. *)

\* The candidate spaces: a small page that shrinks to its content, a large
\* page of fixed size, and a small padded page that shrinks to its content.
LayoutSpaces ==
    { [dimensions |-> Size2DNew(10, 10), padding |-> SizeBoxZero, shrink_to_fit |-> TRUE],
      [dimensions |-> Size2DNew(20, 20), padding |-> SizeBoxZero, shrink_to_fit |-> FALSE],
      [dimensions |-> Size2DNew(10, 10),
       padding |-> [left |-> 2, top |-> 4, right |-> 2, bottom |-> 2],
       shrink_to_fit |-> TRUE] }

PaddedSpace == CHOOSE s \in LayoutSpaces : s.padding # SizeBoxZero

LargeSpace == CHOOSE s \in LayoutSpaces : s.dimensions.x = 20

SmallSpace == CHOOSE s \in LayoutSpaces : s.dimensions.x = 10 /\ s.padding = SizeBoxZero

\* Every list of one or two candidate spaces, and three lists of three.
SpaceLists ==
    [1..1 -> LayoutSpaces] \cup [1..2 -> LayoutSpaces]
        \cup { << PaddedSpace, PaddedSpace, LargeSpace >>,
                << PaddedSpace, SmallSpace, LargeSpace >>,
                << SmallSpace, SmallSpace, SmallSpace >> }

AlignedAxes == [axis : Axes, alignment : Alignments]

\* Orthogonal axes, as LayoutAxes requires.
AllLayoutAxes ==
    { a \in [primary : AlignedAxes, secondary : AlignedAxes] :
        is_horizontal(a.primary.axis) # is_horizontal(a.secondary.axis) }

\* The axes of the main specification: a horizontal and a vertical primary
\* axis with every alignment, the secondary axis of the same sign and alignment.
LayoutAxesSet ==
    { a \in AllLayoutAxes :
        /\ is_positive(a.primary.axis) = is_positive(a.secondary.axis)
        /\ a.primary.alignment = a.secondary.alignment
        /\ a.primary.axis \in {"LeftToRight", "BottomToTop"} }

\* The physical sizes of the boxes handed to add, and the gaps handed to add_space.
BoxSizes == {Size2DNew(4, 6), Size2DNew(6, 4), Size2DNew(6, 0), Size2DNew(0, 6)}

Gaps == {4, 6}

Adds == Len(SelectSeq(trace, LAMBDA e : e.op = "add"))

----------------
(* The state machine. *)

Install(s) ==
    /\ layouts' = s.layouts
    /\ boxes' = s.boxes
    /\ usable' = s.usable
    /\ dimensions' = s.dimensions
    /\ active_space' = s.active_space
    /\ include_empty' = s.include_empty
    /\ finalized' = s.finalized

InitWith(spaceLists, axesSet) ==
    /\ ctx \in [spaces : spaceLists, axes : axesSet]
    /\ LET s == new(ctx)
       IN  /\ layouts = s.layouts
           /\ boxes = s.boxes
           /\ usable = s.usable
           /\ dimensions = s.dimensions
           /\ active_space = s.active_space
           /\ include_empty = s.include_empty
           /\ finalized = s.finalized
    /\ accepted = << >>
    /\ trace = << >>
    /\ output = << >>
    /\ pc = "running"

Init == InitWith(SpaceLists, LayoutAxesSet)

Add(size) ==
    /\ pc = "running"
    /\ Len(trace) < MaxCalls
    /\ LET layout == [id |-> Adds + 1, dimensions |-> size]
           r == add(Self, layout)
       IN  /\ Install(r.state)
           /\ accepted' = IF r.result = "Ok"
                          THEN Append(accepted, [id |-> layout.id,
                                                 size |-> generalized(size, ctx.axes),
                                                 space |-> r.state.active_space])
                          ELSE accepted
           /\ trace' = Append(trace, [op |-> "add", arg |-> size, result |-> r.result,
                                      finalized |-> Len(r.state.layouts) - Len(layouts)])
    /\ UNCHANGED << ctx, output, pc >>

AddSpace(space) ==
    /\ pc = "running"
    /\ Len(trace) < MaxCalls
    /\ LET t == add_space(Self, space)
       IN  /\ Install(t)
           /\ trace' = Append(trace, [op |-> "add_space", arg |-> space, result |-> "Ok",
                                      finalized |-> Len(t.layouts) - Len(layouts)])
    /\ UNCHANGED << ctx, accepted, output, pc >>

Finish ==
    /\ pc = "running"
    /\ LET r == finish(Self)
       IN  /\ Install(r.state)
           /\ output' = r.returned
           /\ trace' = Append(trace, [op |-> "finish", arg |-> 0, result |-> "Ok",
                                      finalized |-> Len(r.returned) - Len(layouts)])
    /\ pc' = "finished"
    /\ UNCHANGED << ctx, accepted >>

Next ==
    \/ \E size \in BoxSizes : Add(size)
    \/ \E space \in Gaps : AddSpace(space)
    \/ Finish

Spec == Init /\ [][Next]_vars

----------------------------------------------------------------------------
(* Vocabulary of the properties. *)

LastSpace == Len(ctx.spaces) - 1

\* The generalized usable size of candidate space j.
UsableOf(j) == generalized(LayoutSpace_usable(Space(ctx, j)), ctx.axes)

LastCall == trace[Len(trace)]

\* The step is a call of add, of add_space, of finish.
IsAdd == Len(trace') = Len(trace) + 1 /\ LastCall'.op = "add"

IsAddSpace == Len(trace') = Len(trace) + 1 /\ LastCall'.op = "add_space"

IsFinish == Len(trace') = Len(trace) + 1 /\ LastCall'.op = "finish"

\* The generalized size of the box the step's add call was given.
AddedSize == generalized(LastCall'.arg, ctx.axes)

\* The ids of the boxes of one Layout, in action order.
LayoutIds(l) == [i \in 1..Len(l.actions) |-> l.actions[i].layout.id]

PendingIds == [i \in 1..Len(boxes) |-> boxes[i].layout.id]

\* The layouts finalized so far: accumulated, or handed out by finish.
Emitted == IF pc = "finished" THEN output ELSE layouts

RECURSIVE Flatten(_)
Flatten(ss) == IF ss = << >> THEN << >> ELSE Head(ss) \o Flatten(Tail(ss))

EmittedIds == [i \in 1..Len(Emitted) |-> LayoutIds(Emitted[i])]

\* The box of generalized size `size` fits candidate space j as the layouter
\* stands: beside the content of the active space, alone in a later space.
FitsIn(j, size) ==
    /\ size.x <= UsableOf(j).x
    /\ (IF j = active_space THEN dimensions.y ELSE 0) + size.y <= UsableOf(j).y

SetMin(S) == CHOOSE m \in S : \A n \in S : m <= n

----------------------------------------------------------------------------
(* C1: greedy packing.  A box goes to the active space when it fits beside  *)
(* the content already there, else to the first later candidate space      *)
(* where it fits; a box never ends up in another space than the one it was *)
(* placed in, and the spaces of successive boxes never decrease.  With two *)
(* spaces of usable secondary extent 10 and 20 and three boxes of secondary*)
(* extent 6, finish returns two Layouts: box 1, then boxes 2 and 3.        *)

C1_Step ==
    IsAdd =>
        LET cands == { j \in active_space..LastSpace : FitsIn(j, AddedSize) }
        IN  IF cands = {}
            THEN LastCall'.result = "NotEnoughSpace" /\ accepted' = accepted
            ELSE /\ LastCall'.result = "Ok"
                 /\ active_space' = SetMin(cands)
                 /\ Len(accepted') = Len(accepted) + 1
                 /\ accepted'[Len(accepted')].space = SetMin(cands)
                 /\ boxes' # << >>
                 /\ boxes'[Len(boxes')].layout.id = accepted'[Len(accepted')].id
                 /\ SetMin(cands) = active_space =>
                        layouts' = layouts /\ Len(boxes') = Len(boxes) + 1

C1_Placed ==
    /\ \A i \in 1..Len(accepted) :
          \/ /\ \E k \in 1..Len(boxes) : boxes[k].layout.id = accepted[i].id
             /\ accepted[i].space = active_space
          \/ \E k \in 1..Len(Emitted) :
                /\ \E n \in 1..Len(EmittedIds[k]) : EmittedIds[k][n] = accepted[i].id
                /\ finalized[k].space = accepted[i].space
    /\ \A i, j \in 1..Len(accepted) : i < j => accepted[i].space <= accepted[j].space

\* Two spaces of usable secondary extent 10 and 20, three boxes of secondary
\* extent 6 whose cross extent fits, then finish.
C1_ExampleRun ==
    /\ pc = "finished"
    /\ Len(ctx.spaces) = 2
    /\ UsableOf(0).y = 10
    /\ UsableOf(1).y = 20
    /\ Len(trace) = 4
    /\ \A i \in 1..3 :
          /\ trace[i].op = "add"
          /\ generalized(trace[i].arg, ctx.axes).y = 6
          /\ generalized(trace[i].arg, ctx.axes).x <= UsableOf(0).x
          /\ generalized(trace[i].arg, ctx.axes).x <= UsableOf(1).x

C1_Example == C1_ExampleRun => EmittedIds = << << 1 >>, << 2, 3 >> >>

\* C1: every box is placed greedily (C1_Step), stays in the space it was placed in
\* (C1_Placed), and the 10/20 example yields box 1, then boxes 2 and 3 (C1_Example).
C1_GreedyPacking == [](C1_Placed /\ C1_Example) /\ [][C1_Step]_vars

C1_Witness == C1_ExampleRun /\ Len(output) = 2 /\ EmittedIds[2] = << 2, 3 >>

----------------------------------------------------------------------------
(* C2: fitting is inclusive.  A box whose cross extent fits and that brings *)
(* the cursor up to, or exactly onto, the usable secondary extent is       *)
(* accepted without finalizing a layout or advancing the active space;     *)
(* once the cursor stands exactly on the usable secondary extent, a        *)
(* further box of secondary extent >= 1 advances to the next candidate     *)
(* space when there is one, and returns NotEnoughSpace in the last space.  *)

C2_Step ==
    /\ (IsAdd /\ AddedSize.x <= usable.x /\ dimensions.y + AddedSize.y <= usable.y) =>
          /\ LastCall'.result = "Ok"
          /\ layouts' = layouts
          /\ active_space' = active_space
          /\ Len(boxes') = Len(boxes) + 1
          /\ dimensions'.y = dimensions.y + AddedSize.y
    /\ (IsAdd /\ dimensions.y = usable.y /\ AddedSize.y >= 1) =>
          IF active_space = LastSpace
          THEN /\ LastCall'.result = "NotEnoughSpace"
               /\ active_space' = active_space
               /\ layouts' = layouts
               /\ boxes' = boxes
          ELSE /\ active_space' >= active_space + 1
               /\ Len(layouts') >= Len(layouts) + 1
               /\ LayoutIds(layouts'[Len(layouts) + 1]) = PendingIds

\* C2: every add step treats an exact fit as a fit, and overflows only beyond it.
C2_InclusiveFit == [][C2_Step]_vars

\* Two boxes filled space 0 exactly, and a third box went on to space 1.
C2_Witness ==
    /\ Len(trace) >= 3
    /\ \A i \in 1..3 : trace[i].op = "add" /\ trace[i].result = "Ok"
    /\ accepted[1].space = 0
    /\ accepted[2].space = 0
    /\ accepted[1].size.y >= 1
    /\ accepted[2].size.y >= 1
    /\ accepted[1].size.y + accepted[2].size.y = UsableOf(0).y
    /\ accepted[3].space = 1
    /\ accepted[3].size.y >= 1

----------------------------------------------------------------------------
(* C3 as stated: add returns NotEnoughSpace exactly when the box's own     *)
(* generalized size exceeds the usable size of the active space and of     *)
(* every later candidate space.                                            *)

C3_AsStated ==
    [][IsAdd =>
         (LastCall'.result = "NotEnoughSpace"
            <=> \A j \in active_space..LastSpace : ~fits(UsableOf(j), AddedSize))]_vars

(* C3, amended: add returns NotEnoughSpace exactly when the box does not   *)
(* fit the active space beside the content already there and, alone, does  *)
(* not fit any later candidate space; in particular whenever its own size  *)
(* exceeds the usable size of every space from the active one on.  The     *)
(* rejected box is not stacked and every other call of add returns Ok.     *)

C3_Step ==
    IsAdd =>
        /\ LastCall'.result \in {"Ok", "NotEnoughSpace"}
        /\ LastCall'.result = "NotEnoughSpace"
              <=> \A j \in active_space..LastSpace : ~FitsIn(j, AddedSize)
        /\ (\A j \in active_space..LastSpace : ~fits(UsableOf(j), AddedSize))
              => LastCall'.result = "NotEnoughSpace"
        /\ LastCall'.result = "NotEnoughSpace" =>
              /\ active_space' = LastSpace
              /\ accepted' = accepted
              /\ \A k \in 1..Len(boxes') : boxes'[k].layout.id # Adds + 1

\* C3 (amended): every add step returns NotEnoughSpace exactly when the box fits
\* neither the active space beside its content nor any later space alone.
C3_NotEnoughSpace == [][C3_Step]_vars

\* A single space, and a box too large for it was refused.
C3_Witness ==
    /\ Len(ctx.spaces) = 1
    /\ trace # << >>
    /\ LastCall.op = "add"
    /\ LastCall.result = "NotEnoughSpace"
    /\ ~fits(UsableOf(0), generalized(LastCall.arg, ctx.axes))

----------------------------------------------------------------------------
(* C4: no box is lost, duplicated or reordered.  At every moment the boxes *)
(* of the finalized Layouts, in order, followed by the pending boxes, are  *)
(* exactly the boxes add returned Ok for, in call order; after finish none *)
(* is pending, so each is in exactly one Layout of the result; the Layouts *)
(* are in the order of finalization, by non-decreasing space.              *)

AcceptedIds == [i \in 1..Len(accepted) |-> accepted[i].id]

\* C4: the finalized boxes followed by the pending ones are the accepted boxes, in
\* call order, each once; the Layouts are in finalization order.
C4_NoBoxLost ==
    /\ Flatten(EmittedIds) \o PendingIds = AcceptedIds
    /\ \A i, j \in 1..Len(AcceptedIds) : i # j => AcceptedIds[i] # AcceptedIds[j]
    /\ pc = "finished" => boxes = << >> /\ Flatten(EmittedIds) = AcceptedIds
    /\ Len(finalized) = Len(Emitted)
    /\ \A i, j \in 1..Len(finalized) : i < j => finalized[i].space <= finalized[j].space

\* finish returned three non-empty Layouts.
C4_Witness ==
    /\ pc = "finished"
    /\ Len(output) = 3
    /\ \A k \in 1..3 : Len(output[k].actions) >= 1
    /\ \E i \in 1..Len(trace) : trace[i].op = "add_space"

----------------------------------------------------------------------------
(* C5: add_space(s).  If cursor + s exceeds the usable secondary extent    *)
(* strictly, the current layout is finalized with the pending boxes and a  *)
(* new space is started with include_empty = false; otherwise, equality    *)
(* included, the cursor advances by exactly s and nothing else changes.    *)

C5_Step ==
    IsAddSpace =>
        IF dimensions.y + LastCall'.arg > usable.y
        THEN /\ Len(layouts') = Len(layouts) + 1
             /\ \A k \in 1..Len(layouts) : layouts'[k] = layouts[k]
             /\ LayoutIds(layouts'[Len(layouts')]) = PendingIds
             /\ boxes' = << >>
             /\ include_empty' = FALSE
             /\ active_space' = Min(active_space + 1, LastSpace)
             /\ usable' = UsableOf(active_space')
             /\ dimensions'.y = 0
        ELSE /\ dimensions' = [dimensions EXCEPT !.y = @ + LastCall'.arg]
             /\ UNCHANGED << boxes, layouts, active_space, include_empty, usable,
                             finalized, accepted >>

\* C5: every add_space step overflows on a strict excess and otherwise only
\* advances the cursor by the gap.
C5_AddSpace == [][C5_Step]_vars

\* A gap brought the cursor exactly onto the usable secondary extent.
C5_Witness ==
    /\ trace # << >>
    /\ LastCall.op = "add_space"
    /\ LastCall.arg > 0
    /\ LastCall.finalized = 0
    /\ dimensions.y = usable.y
    /\ boxes # << >>

----------------------------------------------------------------------------
(* C6 as stated: a space started with include_empty = true always gets a   *)
(* Layout in the result of finish, and a space started with include_empty  *)
(* = false gets a Layout only if a box was added to it: no Layout is ever  *)
(* finalized without boxes while include_empty is false.                   *)

C6_EmptyIncluded ==
    (pc = "finished" /\ include_empty) =>
        /\ LastCall.finalized = 1
        /\ finalized[Len(finalized)].space = active_space

C6_NoEmptyLayoutUnlessIncluded ==
    \A k \in 1..Len(finalized) :
        finalized[k].include_empty = FALSE => Len(Emitted[k].actions) >= 1

\* C6 as stated: both halves of the meaning of include_empty.
C6_AsStated == C6_EmptyIncluded /\ C6_NoEmptyLayoutUnlessIncluded

----------------------------------------------------------------------------
(* C7 as stated: finish called with no boxes pending and include_empty     *)
(* false returns an empty MultiLayout.                                     *)

C7_AsStated ==
    [][(IsFinish /\ boxes = << >> /\ ~include_empty) => output' = << >>]_vars

(* C7, amended: finish called with no boxes pending and include_empty      *)
(* false finalizes no further Layout and returns exactly the Layouts       *)
(* accumulated so far; there is at least one, since include_empty only     *)
(* becomes false when add_space has finalized a layout.                    *)

C7_Step ==
    (IsFinish /\ boxes = << >> /\ ~include_empty) =>
        /\ output' = layouts
        /\ Len(output') >= 1
        /\ finalized' = finalized
        /\ layouts' = << >>

\* C7 (amended): finish with nothing pending and include_empty false returns the
\* accumulated Layouts unchanged, and there is at least one.
C7_FinishAddsNothing == [][C7_Step]_vars

\* finish was called with nothing pending after an overflowing add_space.
C7_Witness ==
    /\ pc = "finished"
    /\ ~include_empty
    /\ LastCall.finalized = 0
    /\ Len(output) >= 1
    /\ trace[Len(trace) - 1].op = "add_space"
    /\ trace[Len(trace) - 1].finalized = 1

----------------------------------------------------------------------------
(* C8 as stated: a Layout finalized in a shrink_to_fit space declares the  *)
(* accumulated content size, cross extent = the largest cross extent of    *)
(* its boxes and secondary extent = the cursor, in physical axes, plus the *)
(* space's padding.                                                        *)

RECURSIVE MaxCross(_)
MaxCross(actions) ==
    IF actions = << >> THEN 0
    ELSE Max(generalized(Head(actions).layout.dimensions, ctx.axes).x,
             MaxCross(Tail(actions)))

\* C8 as stated: the declared dimensions of a shrink_to_fit Layout are its content size.
C8_AsStated ==
    \A k \in 1..Len(Emitted) :
        Space(ctx, finalized[k].space).shrink_to_fit =>
            Emitted[k].dimensions =
                padded(specialized(Size2DNew(MaxCross(Emitted[k].actions),
                                             finalized[k].cursor), ctx.axes),
                       Space(ctx, finalized[k].space).padding)

----------------------------------------------------------------------------
(* C9 as stated: the declared dimensions of a finalized Layout never       *)
(* exceed, in width or in height, the dimensions of the space it was       *)
(* finalized in.                                                           *)

C9_AsStated ==
    \A k \in 1..Len(Emitted) :
        /\ Emitted[k].dimensions.x <= Space(ctx, finalized[k].space).dimensions.x
        /\ Emitted[k].dimensions.y <= Space(ctx, finalized[k].space).dimensions.y

----------------------------------------------------------------------------
(* C10 as stated: adding a box of zero secondary extent never finalizes    *)
(* the current layout, never advances the active space and never fails.    *)

C10_AsStated ==
    [][(IsAdd /\ AddedSize.y = 0) =>
         /\ LastCall'.result = "Ok"
         /\ layouts' = layouts
         /\ active_space' = active_space]_vars

(* C10, amended: a box of zero secondary extent whose cross extent does    *)
(* not exceed the usable cross extent of the active space is accepted      *)
(* without finalizing the current layout or advancing the active space,    *)
(* leaves the cursor where it is, and is stacked as an entry of its own    *)
(* that appears, with a position, exactly once, in a Layout of the space   *)
(* that was active when it was added.                                      *)

C10_Step ==
    (IsAdd /\ AddedSize.y = 0 /\ AddedSize.x <= usable.x) =>
        /\ LastCall'.result = "Ok"
        /\ layouts' = layouts
        /\ finalized' = finalized
        /\ active_space' = active_space
        /\ dimensions' = dimensions
        /\ Len(boxes') = Len(boxes) + 1
        /\ \A k \in 1..Len(boxes) : boxes'[k] = boxes[k]
        /\ boxes'[Len(boxes')].offset = dimensions.y
        /\ boxes'[Len(boxes')].layout = [id |-> Adds + 1, dimensions |-> LastCall'.arg]

C10_Entry ==
    \A i \in 1..Len(accepted) :
        accepted[i].size.y = 0 =>
            /\ Cardinality({ n \in 1..Len(Flatten(EmittedIds) \o PendingIds) :
                               (Flatten(EmittedIds) \o PendingIds)[n] = accepted[i].id }) = 1
            /\ pc = "finished" =>
                  \E k \in 1..Len(output) :
                      /\ finalized[k].space = accepted[i].space
                      /\ \E n \in 1..Len(output[k].actions) :
                            /\ output[k].actions[n].layout.id = accepted[i].id
                            /\ output[k].actions[n].position \in [x : Int, y : Int]

\* C10 (amended): a box of zero secondary extent whose cross extent fits is stacked
\* in place (C10_Step) and shows up exactly once in the result (C10_Entry).
C10_ZeroExtent == []C10_Entry /\ [][C10_Step]_vars

\* finish returned a Layout with a box of zero secondary extent between two others.
C10_Witness ==
    /\ pc = "finished"
    /\ \E k \in 1..Len(output) :
          /\ Len(output[k].actions) = 3
          /\ generalized(output[k].actions[2].layout.dimensions, ctx.axes).y = 0
          /\ generalized(output[k].actions[1].layout.dimensions, ctx.axes).y > 0

----------------------------------------------------------------------------
(* The cursor as the calls account for it: the secondary extents of the    *)
(* boxes accepted into the active space since it was started, plus the     *)
(* gaps add_space inserted there.                                          *)

RECURSIVE CursorAfter(_)
CursorAfter(n) ==
    IF n = 0 THEN 0
    ELSE LET e == trace[n]
             before == IF e.finalized > 0 /\ e.op # "finish" THEN 0 ELSE CursorAfter(n - 1)
         IN  CASE e.op = "add" /\ e.result = "Ok" ->
                    before + generalized(e.arg, ctx.axes).y
               [] e.op = "add_space" /\ e.finalized = 0 -> before + e.arg
               [] OTHER -> before

----------------------------------------------------------------------------
(* C11: remaining() predicts overflow.  remaining() is the specialization  *)
(* of (usable cross extent, usable secondary extent minus the cursor) of   *)
(* the active space; a box whose size fits within remaining() is accepted  *)
(* by the next add without finalizing the layout or advancing the space,   *)
(* and a box whose secondary extent exceeds remaining's overflows into a   *)
(* later space or is refused with NotEnoughSpace.                          *)

C11_Value ==
    remaining(Self) =
        specialized(Size2DNew(UsableOf(active_space).x,
                              UsableOf(active_space).y - CursorAfter(Len(trace))),
                    ctx.axes)

C11_Step ==
    /\ (IsAdd /\ fits(remaining(Self), LastCall'.arg)) =>
          /\ LastCall'.result = "Ok"
          /\ layouts' = layouts
          /\ active_space' = active_space
          /\ Len(boxes') = Len(boxes) + 1
    /\ (IsAdd /\ AddedSize.y > generalized(remaining(Self), ctx.axes).y) =>
          \/ LastCall'.result = "NotEnoughSpace"
          \/ Len(layouts') > Len(layouts) /\ active_space' > active_space

\* C11: remaining() has the stated value in every state, and every add step
\* agrees with what it predicts.
C11_Remaining == []C11_Value /\ [][C11_Step]_vars

\* A box that filled remaining() exactly was accepted beside earlier content,
\* with a vertical primary axis, and remaining() is now flat on the secondary axis.
C11_Witness ==
    /\ ~is_horizontal(ctx.axes.primary.axis)
    /\ trace # << >>
    /\ LastCall.op = "add"
    /\ LastCall.result = "Ok"
    /\ LastCall.finalized = 0
    /\ Len(boxes) >= 2
    /\ generalized(LastCall.arg, ctx.axes).y > 0
    /\ remaining(Self).x = 0
    /\ remaining(Self).y > 0

----------------------------------------------------------------------------
(* C12 as stated: every box of every finalized Layout occupies a rectangle, *)
(* from its position to its position plus its size, that lies within the  *)
(* padded usable area of the Layout's space, from start() to start() plus  *)
(* usable(), whatever the directions and alignments of the axes.           *)

InsideRegion(space, position, size) ==
    LET start == LayoutSpace_start(space)
        end == SizeAdd(start, LayoutSpace_usable(space))
    IN  /\ start.x <= position.x
        /\ start.y <= position.y
        /\ position.x + size.x <= end.x
        /\ position.y + size.y <= end.y

C12_AsStated ==
    \A k \in 1..Len(Emitted) :
        \A n \in 1..Len(Emitted[k].actions) :
            InsideRegion(Space(ctx, finalized[k].space),
                         Emitted[k].actions[n].position,
                         Emitted[k].actions[n].layout.dimensions)

\* The one case of C12_AsStated the failing input is about: top-to-bottom stacking
\* aligned at the end, unpadded 10x10 space, boxes 4x6 and 6x4, then finish.
C12_EndAligned ==
    (/\ pc = "finished"
     /\ ctx.axes.secondary.axis = "TopToBottom"
     /\ ctx.axes.secondary.alignment = "End"
     /\ Len(ctx.spaces) = 1
     /\ Space(ctx, 0).padding = SizeBoxZero
     /\ Space(ctx, 0).dimensions = Size2DNew(10, 10)
     /\ Len(trace) = 3
     /\ trace[1].op = "add" /\ trace[1].arg = Size2DNew(4, 6)
     /\ trace[2].op = "add" /\ trace[2].arg = Size2DNew(6, 4))
    => output[1].actions[2].position.y + 4 <= 10

----------------------------------------------------------------------------
(* The call of add that was given box `id`, and the cursor it found once   *)
(* the box's space was settled, as the calls account for it.               *)

CallOf(id) ==
    CHOOSE i \in 1..Len(trace) :
        /\ trace[i].op = "add"
        /\ Cardinality({ j \in 1..i : trace[j].op = "add" }) = id

OffsetOf(id) == CursorAfter(CallOf(id)) - generalized(trace[CallOf(id)].arg, ctx.axes).y

----------------------------------------------------------------------------
(* C13 as stated: LayoutSpace::start() returns (padding.left, padding.top) *)
(* for every padding, and so every box position is the position within the *)
(* usable area translated horizontally by the left padding and vertically  *)
(* by the top padding of the Layout's space.                               *)

C13_Start ==
    \A j \in 0..LastSpace :
        LayoutSpace_start(Space(ctx, j)) =
            Size2DNew(Space(ctx, j).padding.left, Space(ctx, j).padding.top)

\* The position of a box within the usable area of candidate space j.
PositionInUsable(j, layout) ==
    LET size == generalized(layout.dimensions, ctx.axes)
        factor == IF is_positive(ctx.axes.secondary.axis) THEN 1 ELSE -1
    IN  specialized(
            SizeAdd(SizeSub(LayoutAxes_anchor(ctx.axes, UsableOf(j)),
                            LayoutAxes_anchor(ctx.axes, size)),
                    with_y(OffsetOf(layout.id) * factor)),
            ctx.axes)

C13_Translated ==
    \A k \in 1..Len(Emitted) :
        \A n \in 1..Len(Emitted[k].actions) :
            LET space == Space(ctx, finalized[k].space)
                action == Emitted[k].actions[n]
            IN  action.position =
                    SizeAdd(PositionInUsable(finalized[k].space, action.layout),
                            Size2DNew(space.padding.left, space.padding.top))

C13_AsStated == C13_Start /\ C13_Translated

\* What the code does instead: the vertical translation is the right padding.
C13_TranslatedByRight ==
    \A k \in 1..Len(Emitted) :
        \A n \in 1..Len(Emitted[k].actions) :
            LET space == Space(ctx, finalized[k].space)
                action == Emitted[k].actions[n]
            IN  action.position =
                    SizeAdd(PositionInUsable(finalized[k].space, action.layout),
                            Size2DNew(space.padding.left, space.padding.right))

----------------------------------------------------------------------------
(* The specification of the anchor computation: a layouter over one large  *)
(* space, with any orthogonal pair of aligned axes, is given one box whose *)
(* extents are drawn from the line lengths; add computes the box's anchor  *)
(* on both axes and keeps it with the pending box.                         *)

\* Line lengths are the even numbers up to twice this, so that half a line is exact.
MaxHalfLine == 10

AnchorLines == { 2 * i : i \in 0..MaxHalfLine }

AnchorSizes == { Size2DNew(p, q) : p \in AnchorLines, q \in AnchorLines }

InitAnchor == InitWith({ << LargeSpace >> }, AllLayoutAxes)

AnchorAdd(size) == trace = << >> /\ Add(size)

NextAnchor == \E size \in AnchorSizes : AnchorAdd(size)

SpecAnchor == InitAnchor /\ [][NextAnchor]_vars

----------------------------------------------------------------------------
(* C14: the anchor table.  For each of the four axes, each of the three    *)
(* alignments and every non-negative line length, AlignedAxis::anchor is 0 *)
(* for (positive, Origin) and (negative, End), half the line for Center,   *)
(* and the line for (positive, End) and (negative, Origin); it is never    *)
(* outside [0, line].                                                      *)

AnchorTable(axis, alignment, line) ==
    IF alignment = "Center" THEN line \div 2
    ELSE IF (axis \in {"LeftToRight", "TopToBottom"}) = (alignment = "Origin") THEN 0
    ELSE line

AnchorAsTabled(aligned, line, anchor) ==
    /\ anchor = AnchorTable(aligned.axis, aligned.alignment, line)
    /\ 0 <= anchor
    /\ anchor <= line

\* C14: the anchor add computed for every pending box is the table's entry for the
\* box's extent on each axis, within [0, extent].
C14_AnchorTable ==
    \A k \in 1..Len(boxes) :
        LET size == generalized(boxes[k].layout.dimensions, ctx.axes)
        IN  /\ AnchorAsTabled(ctx.axes.primary, size.x, boxes[k].anchor.x)
            /\ AnchorAsTabled(ctx.axes.secondary, size.y, boxes[k].anchor.y)

\* A box on a negative primary axis aligned at the origin and a centered secondary
\* axis: its anchor is the whole primary extent and half the secondary extent.
C14_Witness ==
    /\ Len(boxes) = 1
    /\ ctx.axes.primary = [axis |-> "RightToLeft", alignment |-> "Origin"]
    /\ ctx.axes.secondary = [axis |-> "BottomToTop", alignment |-> "Center"]
    /\ generalized(boxes[1].layout.dimensions, ctx.axes) = Size2DNew(8, 12)
    /\ boxes[1].anchor = Size2DNew(8, 6)

----------------------------------------------------------------------------
(* C15: offsets.  The secondary offset recorded for a pending box is the   *)
(* cursor at the moment of insertion: the sum of the secondary extents of  *)
(* the boxes added before it to the same space plus the gaps inserted      *)
(* there; a successful add leaves the cursor exactly the box's secondary   *)
(* extent further.  So the offsets of a layout's boxes never decrease and  *)
(* the secondary intervals [offset, offset + extent] of distinct boxes do  *)
(* not overlap.                                                            *)

BoxExtent(k) == generalized(boxes[k].layout.dimensions, ctx.axes).y

\* C15: recorded offsets and the cursor agree with the account of the calls, and the
\* boxes' secondary intervals follow one another up to the cursor.
C15_Offsets ==
    /\ dimensions.y = CursorAfter(Len(trace))
    /\ \A k \in 1..Len(boxes) :
          /\ boxes[k].offset = OffsetOf(boxes[k].layout.id)
          /\ boxes[k].offset >= 0
          /\ boxes[k].offset + BoxExtent(k) <= dimensions.y
    /\ \A k, m \in 1..Len(boxes) :
          k < m => boxes[k].offset + BoxExtent(k) <= boxes[m].offset
    /\ (trace # << >> /\ LastCall.op = "add" /\ LastCall.result = "Ok") =>
          /\ boxes # << >>
          /\ boxes[Len(boxes)].offset + BoxExtent(Len(boxes)) = dimensions.y

\* Three boxes pending in one space with a gap between them: the offsets differ from
\* the sum of the extents by the gap.
C15_Witness ==
    /\ Len(boxes) = 3
    /\ boxes[1].offset = 0
    /\ BoxExtent(1) > 0
    /\ boxes[2].offset > BoxExtent(1)
    /\ boxes[3].offset = boxes[2].offset + BoxExtent(2)
    /\ BoxExtent(2) > 0
    /\ dimensions.y = boxes[3].offset + BoxExtent(3)

----------------------------------------------------------------------------
(* C16: one Layout per space reached by add.  When the calls are calls of  *)
(* add only, successful or failing, followed by finish, every space passed *)
(* by an overflowing add contributes exactly one Layout, possibly empty,   *)
(* and the MultiLayout finish returns holds exactly active_space + 1       *)
(* Layouts, never more than there are spaces; finish on a fresh layouter   *)
(* returns exactly one Layout, without actions.                            *)

AddsOnly == \A i \in 1..Len(trace) : trace[i].op \in {"add", "finish"}

\* The ids of the boxes add accepted into candidate space j, in call order.
AcceptedInto(j) ==
    LET into == SelectSeq(accepted, LAMBDA a : a.space = j)
    IN  [i \in 1..Len(into) |-> into[i].id]

\* C16: with calls of add only, the k-th Layout is the one of space k - 1 and holds
\* the boxes accepted into it; finish returns active_space + 1 Layouts.
C16_OneLayoutPerSpace ==
    AddsOnly =>
        /\ \A k \in 1..Len(Emitted) :
              /\ finalized[k].space = k - 1
              /\ EmittedIds[k] = AcceptedInto(k - 1)
        /\ pc = "running" => Len(layouts) = active_space
        /\ pc = "finished" =>
              /\ Len(output) = active_space + 1
              /\ Len(output) <= Len(ctx.spaces)
        /\ (pc = "finished" /\ Len(trace) = 1) =>
              Len(output) = 1 /\ output[1].actions = << >>

\* Calls of add only: a box passed two spaces, which contribute an empty Layout each,
\* and finish returned three Layouts for three spaces.
C16_Witness ==
    /\ pc = "finished"
    /\ AddsOnly
    /\ Len(trace) >= 2
    /\ trace[1].finalized = 2
    /\ active_space = 2
    /\ Len(output) = 3
    /\ output[1].actions = << >>
    /\ output[2].actions = << >>
    /\ output[3].actions # << >>

----------------------------------------------------------------------------
(* C17: the advance loop of add terminates.  Every iteration either        *)
(* returns NotEnoughSpace or finalizes one layout and moves the active     *)
(* space on by one, so a single call of add finalizes as many layouts as   *)
(* it advances spaces, at most (number of spaces - 1 - active_space), and  *)
(* ends with Ok or NotEnoughSpace.                                         *)

C17_Step ==
    IsAdd =>
        /\ LastCall'.result \in {"Ok", "NotEnoughSpace"}
        /\ LastCall'.finalized = Len(layouts') - Len(layouts)
        /\ LastCall'.finalized = active_space' - active_space
        /\ LastCall'.finalized <= Len(ctx.spaces) - 1 - active_space
        /\ \A k \in 1..LastCall'.finalized :
              finalized'[Len(finalized) + k].space = active_space + k - 1

\* C17: every add step ends, having finalized one layout per space it moved on,
\* within the candidate spaces left.
C17_AdvanceTerminates == [][C17_Step]_vars

\* A call of add that had content pending went through every space left, two of
\* them, and found room in the last one.
C17_Witness ==
    /\ Len(ctx.spaces) = 3
    /\ Len(trace) >= 2
    /\ LastCall.op = "add"
    /\ LastCall.result = "Ok"
    /\ LastCall.finalized = 2
    /\ active_space = 2
    /\ Len(layouts) = 2
    /\ layouts[1].actions # << >>

----------------------------------------------------------------------------
(* C18: the active space.  Its index always lies within 0 .. number of     *)
(* spaces - 1 and never decreases, and the cached usable size is always    *)
(* the generalized usable size of the space it names; an overflow of       *)
(* add_space in the last space finalizes the layout and stays in the last  *)
(* space.                                                                  *)

C18_Inv ==
    /\ 0 <= active_space
    /\ active_space <= Len(ctx.spaces) - 1
    /\ usable = generalized(LayoutSpace_usable(ctx.spaces[active_space + 1]), ctx.axes)

C18_Step ==
    /\ active_space' >= active_space
    /\ (IsAddSpace /\ active_space = LastSpace /\ LastCall'.finalized > 0) =>
          /\ active_space' = LastSpace
          /\ usable' = usable
          /\ Len(layouts') = Len(layouts) + 1
          /\ dimensions'.y = 0

\* C18: the index is in range with the usable size of its space cached, in every
\* state; no step decreases it, and add_space overflowing in the last space stays.
C18_ActiveSpace == []C18_Inv /\ [][C18_Step]_vars

\* With two spaces, add_space overflowed in the last space, which had been reached
\* by an earlier overflow, and the layouter is still in the last space.
C18_Witness ==
    /\ Len(ctx.spaces) = 2
    /\ active_space = 1
    /\ trace # << >>
    /\ LastCall.op = "add_space"
    /\ LastCall.finalized = 1
    /\ Len(finalized) >= 2
    /\ finalized[1].space = 0
    /\ finalized[Len(finalized)].space = 1
    /\ pc = "running"

----------------------------------------------------------------------------
(* C19: the cursor stays within the space.  With non-negative box sizes,   *)
(* gaps and usable areas, 0 <= cursor <= usable secondary extent of the    *)
(* active space in every reachable state, so the secondary component of    *)
(* remaining() is never negative.                                          *)

NonNegativeInputs ==
    /\ \A j \in 0..LastSpace : UsableOf(j).x >= 0 /\ UsableOf(j).y >= 0
    /\ \A i \in 1..Len(trace) :
          /\ trace[i].op = "add" => trace[i].arg.x >= 0 /\ trace[i].arg.y >= 0
          /\ trace[i].op = "add_space" => trace[i].arg >= 0

\* C19: the cursor lies between 0 and the usable secondary extent, and remaining()
\* has no negative secondary component.
C19_CursorInSpace ==
    NonNegativeInputs =>
        /\ 0 <= dimensions.y
        /\ dimensions.y <= usable.y
        /\ generalized(remaining(Self), ctx.axes).y >= 0

\* Boxes and a gap filled the active space to the brim, and a box of no secondary
\* extent was still accepted there: the cursor stands on the usable extent.
C19_Witness ==
    /\ NonNegativeInputs
    /\ Len(trace) >= 3
    /\ \E i \in 1..Len(trace) : trace[i].op = "add_space" /\ trace[i].finalized = 0
    /\ LastCall.op = "add"
    /\ LastCall.result = "Ok"
    /\ LastCall.finalized = 0
    /\ generalized(LastCall.arg, ctx.axes).y = 0
    /\ Len(boxes) >= 2
    /\ dimensions.y = usable.y
    /\ generalized(remaining(Self), ctx.axes).y = 0

----------------------------------------------------------------------------
(* C20: the state after NotEnoughSpace.  When add returns NotEnoughSpace   *)
(* the active space is the last one, the rejected box is neither pending   *)
(* nor in any Layout, and every box accepted before is still there,        *)
(* pending or finalized, so that a later finish emits it; when the active  *)
(* space was the last one already at the call, the pending boxes, the      *)
(* cursor, the layouts, the active space and include_empty are unchanged.  *)

Refused == { i \in 1..Len(trace) : trace[i].op = "add" /\ trace[i].result = "NotEnoughSpace" }

\* The ids of the boxes of the accumulated Layouts after the step, in order.
LayoutsIdsAfter == Flatten([k \in 1..Len(layouts') |-> LayoutIds(layouts'[k])])

PendingIdsAfter == [i \in 1..Len(boxes') |-> boxes'[i].layout.id]

C20_Step ==
    (IsAdd /\ LastCall'.result = "NotEnoughSpace") =>
        /\ active_space' = LastSpace
        /\ \A i \in 1..Len(PendingIdsAfter) : PendingIdsAfter[i] # Adds + 1
        /\ \A i \in 1..Len(LayoutsIdsAfter) : LayoutsIdsAfter[i] # Adds + 1
        /\ accepted' = accepted
        /\ LayoutsIdsAfter \o PendingIdsAfter = AcceptedIds
        /\ active_space = LastSpace =>
              UNCHANGED << boxes, dimensions, layouts, active_space, include_empty,
                           usable, finalized >>

C20_Emitted ==
    (pc = "finished" /\ Refused # {}) =>
        /\ Flatten(EmittedIds) = AcceptedIds
        /\ \A i \in Refused :
              \A n \in 1..Len(Flatten(EmittedIds)) :
                  Flatten(EmittedIds)[n] # Cardinality({ j \in 1..i : trace[j].op = "add" })

\* C20: every refused add leaves the layouter in the last space with the accepted
\* boxes and without the refused one, untouched if it was there already; finish
\* then emits the accepted boxes and no refused one.
C20_AfterNotEnoughSpace == []C20_Emitted /\ [][C20_Step]_vars

\* A box was accepted, a second one moved on to the last space and was refused
\* there, and finish returned the first box in its Layout and an empty last one.
C20_Witness ==
    /\ pc = "finished"
    /\ Len(trace) = 3
    /\ trace[1].op = "add" /\ trace[1].result = "Ok"
    /\ trace[2].op = "add" /\ trace[2].result = "NotEnoughSpace"
    /\ trace[2].finalized = 1
    /\ active_space = LastSpace
    /\ EmittedIds = << << 1 >>, << >> >>

====
